---- MODULE Spec2Model ----
(***************************************************************************)
(* Model of the collection pass of npms-analyzer:                          *)
(*   lib/analyze/collect/index.js  (checkRepositoryOwnership, collect)     *)
(* One behaviour is one call of collect(data, packageJson, downloaded,     *)
(* npmNano).  The inputs of the call are drawn in Init; the replies of the *)
(* registry and the outcomes of the collectors are drawn when they settle. *)
(***************************************************************************)
EXTENDS Integers, Sequences, FiniteSets, TLC

VARIABLES
    data,          \* the package data ({ maintainers })
    packageJson,   \* the latest package.json (normalized)
    downloaded,    \* the downloaded info ({ downloader, packageJson })
    pc,            \* position of the collect() call
    ownership,     \* state of the promise of checkRepositoryOwnership
    lookups,       \* names passed to npmNano.getAsync, in order
    getAsync,      \* settlement of npmNano.getAsync, until the verdict is consumed
    warned,        \* number of log.warn calls
    invoked,       \* collectors that were called
    promises,      \* the object handed to promisePropsSettled
    collected,     \* what promisePropsSettled fulfilled with
    result,        \* what collect() fulfilled with
    rejection,     \* what collect() rejected with
    target,        \* findPackageDir: packageJson.name of the package looked for
    fs,            \* findPackageDir: what loadJsonFile does for each directory
    fpc,           \* findPackageDir: position of the call
    candidates,    \* findPackageDir: the directories lookForPackageDir reduces over
    index,         \* findPackageDir: reducer calls made so far
    packageDir,    \* findPackageDir: the reducer's accumulator (<<>> is null)
    reads,         \* findPackageDir: directories whose package.json was read, in order
    globbed,       \* findPackageDir: number of globby calls
    debugged,      \* findPackageDir: number of log.debug calls
    found,         \* findPackageDir: what the call fulfilled with
    failure        \* findPackageDir: what the call rejected with

collectVars == <<data, packageJson, downloaded, pc, ownership, lookups, getAsync, warned,
                 invoked, promises, collected, result, rejection>>

findVars == <<target, fs, fpc, candidates, index, packageDir, reads, globbed,
              debugged, found, failure>>

vars == <<collectVars, findVars>>

----------------------------------------------------------------------------
(* Bounds and value sets                                                   *)

MaxMaintainers == 1

Undefined == "undefined"
Null == "null"
EmptyObject == [k \in {} |-> Undefined]

\* Package names; the package under analysis is "a", and a downloaded
\* manifest names it, another package, or nothing.
Names == {"a", "b"}
PackageName == "a"
MaintainerNames == {"x", "y"}
MaintainerEmails == {"e", "f"}
Downloaders == {"npm", "github"}
Collectors == {"metadata", "npm", "github", "source"}

\* Values a collector's promise can fulfil with: null or some object.
CollectorValues == {Null, "object"}

\* The `repository` field: absent, an object without `url`, or one with it.
RepositoryParts ==
    {EmptyObject} \cup {[repository |-> r] : r \in {EmptyObject, [url |-> "git://u"]}}

\* A normalized package.json from the registry always carries name and
\* version, and its repository, when it has one, carries a url.
LatestManifests ==
    {[name |-> PackageName, version |-> "1.0.0"] @@ r :
        r \in {EmptyObject, [repository |-> [url |-> "git://u"]]}}

\* The package.json found on disk: {} when nothing usable was downloaded,
\* else a manifest with or without a name and a repository.
DownloadedManifests ==
    {EmptyObject} \cup
    {n @@ r @@ [version |-> "1.0.0"] :
        n \in {EmptyObject} \cup {[name |-> x] : x \in Names},
        r \in RepositoryParts}

\* A maintainer has a name, an email, or both.
Maintainers ==
    {n @@ e : n \in {EmptyObject} \cup {[name |-> x] : x \in MaintainerNames},
              e \in {EmptyObject} \cup {[email |-> x] : x \in MaintainerEmails}}
    \ {EmptyObject}

MaintainerLists == UNION {[1..n -> Maintainers] : n \in 0..MaxMaintainers}

\* Errors npmNano.getAsync can reject with.
LookupErrors == {[error |-> "not_found"], [error |-> "unauthorized"], [code |-> "ETIMEDOUT"]}

----------------------------------------------------------------------------
(* JavaScript and lodash helpers                                           *)

Get(obj, key) == IF key \in DOMAIN obj THEN obj[key] ELSE Undefined

Truthy(v) == v \notin {Undefined, Null, ""}

isEmpty(obj) == DOMAIN obj = {}

pickByNothing(obj) == obj

pickByDefined(obj) == [k \in {x \in DOMAIN obj : obj[x] # Undefined} |-> obj[k]]

pickBy(obj) == [k \in {x \in DOMAIN obj : Truthy(obj[x])} |-> obj[k]]

----------------------------------------------------------------------------
(* checkRepositoryOwnership                                                *)

NameNeverEqual(latest, downloadedPackageJson) == FALSE

\* packageJson.name === downloaded.packageJson.name
NameEqual(latest, downloadedPackageJson) ==
    Get(latest, "name") = Get(downloadedPackageJson, "name")

\* json.repository && json.repository.url
RepositoryUrl(json) ==
    IF "repository" \in DOMAIN json THEN Get(json["repository"], "url") ELSE Undefined

OnlyLatestHasNoRepository(latest, downloadedPackageJson) ==
    ~Truthy(RepositoryUrl(latest)) /\ Truthy(RepositoryUrl(downloadedPackageJson))

\* !repositoryUrl && !downloadedRepositoryUrl
BothHaveNoRepository(latest, downloadedPackageJson) ==
    ~Truthy(RepositoryUrl(latest)) /\ ~Truthy(RepositoryUrl(downloadedPackageJson))

DownloadNeverFailed(downloadedPackageJson) == FALSE

\* isEmpty(downloaded.packageJson)
DownloadFailed(downloadedPackageJson) == isEmpty(downloadedPackageJson)

\* The comparator handed to intersectionWith.
SameMaintainer(maintainer, downloadedMaintainer) ==
    \/ Get(maintainer, "name") = Get(downloadedMaintainer, "name")
    \/ Get(maintainer, "email") = Get(downloadedMaintainer, "email")

\* lodash intersectionWith with that comparator: the elements of the first
\* array that some element of the second one matches.
intersectionWith(array, other) ==
    SelectSeq(array, LAMBDA v : \E j \in 1..Len(other) : SameMaintainer(v, other[j]))

\* intersectionWith(data.maintainers, downloadedData.maintainers, ...).length > 0
IsMaintainer(maintainers, downloadedMaintainers) ==
    Len(intersectionWith(maintainers, downloadedMaintainers)) > 0

CatchEverything(err) == TRUE

CatchNothing(err) == FALSE

\* The predicate of .catch({ error: 'not_found' }, ...)
CatchNotFound(err) == Get(err, "error") = "not_found"

LookupLatestName(latest, downloadedPackageJson) == Get(latest, "name")

\* npmNano.getAsync(downloaded.packageJson.name)
LookupName(latest, downloadedPackageJson) == Get(downloadedPackageJson, "name")

\* The synchronous part of checkRepositoryOwnership: the three short
\* circuits in the order of the code, else the registry lookup.
CheckRepositoryOwnership ==
    /\ pc = "start"
    /\ IF NameEqual(packageJson, downloaded.packageJson)
       THEN /\ ownership' = "true"
            /\ pc' = "verified"
            /\ UNCHANGED lookups
       ELSE IF BothHaveNoRepository(packageJson, downloaded.packageJson)
       THEN /\ ownership' = "true"
            /\ pc' = "verified"
            /\ UNCHANGED lookups
       ELSE IF DownloadFailed(downloaded.packageJson)
       THEN /\ ownership' = "false"
            /\ pc' = "verified"
            /\ UNCHANGED lookups
       ELSE /\ lookups' = Append(lookups, LookupName(packageJson, downloaded.packageJson))
            /\ pc' = "lookup"
            /\ UNCHANGED ownership
    /\ UNCHANGED <<data, packageJson, downloaded, getAsync, warned,
                   invoked, promises, collected, result, rejection>>
    /\ UNCHANGED findVars

\* npmNano.getAsync fulfils with the record of the downloaded package:
\* the .then and .tap callbacks run, the .catch is passed over.
GetAsyncFulfils ==
    /\ pc = "lookup"
    /\ \E downloadedMaintainers \in MaintainerLists :
         LET isMaintainer == IsMaintainer(data.maintainers, downloadedMaintainers)
         IN  /\ getAsync' = [status |-> "fulfilled",
                              value |-> [maintainers |-> downloadedMaintainers]]
             /\ ownership' = IF isMaintainer THEN "true" ELSE "false"
             /\ warned' = IF isMaintainer THEN warned ELSE warned + 1
    /\ pc' = "verified"
    /\ UNCHANGED <<data, packageJson, downloaded, lookups, invoked, promises,
                   collected, result, rejection>>
    /\ UNCHANGED findVars

\* npmNano.getAsync rejects: .then and .tap are passed over, the .catch
\* turns a matching error into false and lets any other error through,
\* in which case the .then of collect() never runs and collect() rejects.
GetAsyncRejects ==
    /\ pc = "lookup"
    /\ \E err \in LookupErrors :
         /\ IF CatchNotFound(err)
            THEN /\ ownership' = "false"
                 /\ pc' = "verified"
                 /\ UNCHANGED rejection
            ELSE /\ ownership' = "rejected"
                 /\ pc' = "rejected"
                 /\ rejection' = err
         /\ getAsync' = [status |-> "rejected", reason |-> err]
    /\ UNCHANGED <<data, packageJson, downloaded, lookups, warned, invoked,
                   promises, collected, result>>
    /\ UNCHANGED findVars

----------------------------------------------------------------------------
(* collect                                                                 *)

GithubAlways(isRepositoryOwner) == TRUE

\* github: isRepositoryOwner && collectors.github(...)
GithubApplicable(isRepositoryOwner) == isRepositoryOwner

SourceOwnerOnly(downloader, isRepositoryOwner) == isRepositoryOwner

SourceOwnerBoth(downloader, isRepositoryOwner) == downloader = "npm" /\ isRepositoryOwner

\* const isSourceOwner = downloaded.downloader === 'npm' || isRepositoryOwner
IsSourceOwner(downloader, isRepositoryOwner) == downloader = "npm" \/ isRepositoryOwner

Pending == [status |-> "pending", value |-> Undefined]
Skipped == [status |-> "skipped", value |-> Undefined]
NotCreated == [status |-> "none", value |-> Undefined]

\* The collectors the callback calls for a verdict, in the order of the
\* object literal; a skipped entry holds false and its collector is not called.
Applicable(downloader, isRepositoryOwner) ==
    {"metadata", "npm"}
    \cup (IF GithubApplicable(isRepositoryOwner) THEN {"github"} ELSE {})
    \cup (IF IsSourceOwner(downloader, isRepositoryOwner) THEN {"source"} ELSE {})

SpeculativeStart == pc \in {"lookup", "verified"}

\* checkRepositoryOwnership(...).then(...): the callback waits for the promise.
VerdictReady == pc = "verified"

\* The .then callback of collect(): runs once the verdict is known, calls
\* the applicable collectors and hands their promises to promisePropsSettled.
RunCollectors ==
    /\ VerdictReady
    /\ LET isRepositoryOwner == ownership = "true"
           called == Applicable(downloaded.downloader, isRepositoryOwner)
       IN  /\ invoked' = called
           /\ promises' = [c \in Collectors |-> IF c \in called THEN Pending ELSE Skipped]
    /\ getAsync' = EmptyObject
    /\ pc' = "collecting"
    /\ UNCHANGED <<data, packageJson, downloaded, ownership, lookups, warned,
                   collected, result, rejection>>
    /\ UNCHANGED findVars

\* A collector's promise settles: it fulfils with some value or rejects.
CollectorFulfils(c) ==
    /\ pc = "collecting"
    /\ promises[c].status = "pending"
    /\ \E v \in CollectorValues :
         promises' = [promises EXCEPT ![c] = [status |-> "fulfilled", value |-> v]]
    /\ UNCHANGED <<data, packageJson, downloaded, pc, ownership, lookups,
                   getAsync, warned, invoked, collected, result, rejection>>
    /\ UNCHANGED findVars

CollectorRejects(c) ==
    /\ pc = "collecting"
    /\ promises[c].status = "pending"
    /\ promises' = [promises EXCEPT ![c] = [status |-> "rejected", value |-> Undefined]]
    /\ UNCHANGED <<data, packageJson, downloaded, pc, ownership, lookups,
                   getAsync, warned, invoked, collected, result, rejection>>
    /\ UNCHANGED findVars

\* What promisePropsSettled fulfils with: the values of the entries whose
\* operation fulfilled; skipped and failed entries are absent.
Settled(object) ==
    [c \in {x \in DOMAIN object : object[x].status = "fulfilled"} |-> object[c].value]

AnySettled(object) == \E c \in DOMAIN object : object[c].status \in {"fulfilled", "rejected"}

\* Every operation handed to promisePropsSettled has finished.
AllSettled(object) == \A c \in DOMAIN object : object[c].status # "pending"

\* promisePropsSettled fulfils once every operation it was given has settled.
PromisePropsSettled ==
    /\ pc = "collecting"
    /\ AllSettled(promises)
    /\ collected' = Settled(promises)
    /\ pc' = "settled"
    /\ UNCHANGED <<data, packageJson, downloaded, ownership, lookups,
                   getAsync, warned, invoked, promises, result, rejection>>
    /\ UNCHANGED findVars

\* .then((collected) => pickBy(collected)): collect() fulfils.
PickCollected ==
    /\ pc = "settled"
    /\ result' = pickBy(collected)
    /\ pc' = "done"
    /\ UNCHANGED <<data, packageJson, downloaded, ownership, lookups,
                   getAsync, warned, invoked, promises, collected, rejection>>
    /\ UNCHANGED findVars

\* collectors.metadata.empty(name): the metadata collector's placeholder.
metadataEmpty(name) == [name |-> name]

emptyWithNpm(name) == [metadata |-> metadataEmpty(name), npm |-> metadataEmpty(name)]

\* empty(name)
empty(name) == [metadata |-> metadataEmpty(name)]

\* The caller asks for the empty collected data of the package instead of
\* running collect().
Empty ==
    /\ pc = "start"
    /\ result' = empty(packageJson["name"])
    /\ pc' = "empty"
    /\ UNCHANGED <<data, packageJson, downloaded, ownership, lookups, getAsync,
                   warned, invoked, promises, collected, rejection>>
    /\ UNCHANGED findVars

----------------------------------------------------------------------------
(* findPackageDir (lib/analyze/download/util/findPackageDir.js)            *)
(* Paths are sequences of segments; <<>> stands for null.                  *)

MaxNested == 2

NestedNames == <<"foo", "bar", "baz", "qux">>

\* The folder in which the package was downloaded.
Dir == <<"tmp", "pkg">>

Manifest == <<"package.json">>

\* The nested package directories of the tree, relative to Dir.
NestedDirs == {<<"packages", NestedNames[i]>> : i \in 1..MaxNested}

\* Every file '**/package.json' can match, relative to Dir.
ManifestFiles == {Manifest} \cup {d \o Manifest : d \in NestedDirs}

\* Orders in which globby can list files: no file twice.
Enumerations ==
    UNION {{e \in [1..n -> ManifestFiles] : \A i, j \in 1..n : e[i] = e[j] => i = j} :
              n \in 0..Cardinality(ManifestFiles)}

\* What loadJsonFile can settle with: a JSON object with or without a name,
\* the JSON value null, or a rejection (missing file, malformed JSON).
Loaded(json, name) == [status |-> "fulfilled", json |-> json, name |-> name, code |-> Undefined]
Failed(code) == [status |-> "rejected", json |-> Undefined, name |-> Undefined, code |-> code]

LoadOutcomes ==
    {Loaded("object", n) : n \in Names \cup {Undefined}}
    \cup {Loaded("null", Undefined)}
    \cup {Failed(c) : c \in {"ENOENT", "JSONError"}}

\* path.dirname(file)
dirname(file) == SubSeq(file, 1, Len(file) - 1)

\* path.join(dir, relative)
join(dir, relative) == dir \o relative

\* globby('**/package.json', { cwd: dir, onlyFiles: true }) lists every
\* manifest file of the tree, in some order; a listed file can be gone by
\* the time it is read.
Globbed(files) ==
    \A f \in ManifestFiles :
        fs[join(Dir, dirname(f))].code # "ENOENT" => \E i \in DOMAIN files : files[i] = f

\* .catch({ code: 'ENOENT' }, () => ({}))
CatchENOENT(loaded) ==
    IF loaded.status = "rejected" /\ loaded.code = "ENOENT"
    THEN Loaded("object", Undefined) ELSE loaded

CatchNone(loaded) == loaded

\* .catch((err) => { log.debug(...); return {}; })
CatchAny(loaded) ==
    IF loaded.status = "rejected" THEN Loaded("object", Undefined) ELSE loaded

\* The second catch logs what the first one let through.
LogsDebug(loaded) == CatchENOENT(loaded).status = "rejected"

\* .then((downloadedPackageJson) => packageJson.name === downloadedPackageJson.name):
\* reading .name of null throws, and a rejection is passed on.
CompareName(name, loaded) ==
    IF loaded.status = "rejected"
    THEN [status |-> "rejected", same |-> FALSE, code |-> loaded.code]
    ELSE IF loaded.json = "null"
    THEN [status |-> "rejected", same |-> FALSE, code |-> "TypeError"]
    ELSE [status |-> "fulfilled", same |-> name = loaded.name, code |-> Undefined]

\* isSamePackage(packageJson, dir), given what loadJsonFile settles with.
isSamePackage(name, loaded) == CompareName(name, CatchAny(CatchENOENT(loaded)))

RootNeverSame(same) == FALSE

\* isSame ? dir : lookForPackageDir(packageJson, dir)
RootIsSame(same) == same

\* files.filter((file) => file !== 'package.json')
\*      .map((file) => path.join(dir, path.dirname(file)))
RECURSIVE CandidateDirs(_)
CandidateDirs(files) ==
    IF files = <<>> THEN <<>>
    ELSE IF Head(files) # Manifest
    THEN <<join(Dir, dirname(Head(files)))>> \o CandidateDirs(Tail(files))
    ELSE CandidateDirs(Tail(files))

\* packageDir || dir
Fallback(dir) == IF packageDir # <<>> THEN packageDir ELSE dir

\* findPackageDir is called: the root manifest is read and compared; a match
\* goes straight to the fallback step, otherwise globby is called.
FindPackageDir ==
    /\ fpc = "start"
    /\ LET isSame == isSamePackage(target, fs[Dir])
       IN  /\ reads' = Append(reads, Dir)
           /\ debugged' = IF LogsDebug(fs[Dir]) THEN debugged + 1 ELSE debugged
           /\ IF isSame.status = "rejected"
              THEN /\ fpc' = "rejected"
                   /\ failure' = isSame.code
                   /\ UNCHANGED <<packageDir, globbed>>
              ELSE IF RootIsSame(isSame.same)
              THEN /\ fpc' = "resolved"
                   /\ packageDir' = Dir
                   /\ UNCHANGED <<failure, globbed>>
              ELSE /\ fpc' = "glob"
                   /\ globbed' = globbed + 1
                   /\ UNCHANGED <<failure, packageDir>>
    /\ UNCHANGED <<target, fs, candidates, index, found>>
    /\ UNCHANGED collectVars

\* globby fulfils: the root manifest is filtered out and the rest mapped to
\* directories, over which the reduce starts with null.
GlobbyFulfils ==
    /\ fpc = "glob"
    /\ \E files \in Enumerations :
         /\ Globbed(files)
         /\ candidates' = CandidateDirs(files)
    /\ index' = 0
    /\ packageDir' = <<>>
    /\ fpc' = "reduce"
    /\ UNCHANGED <<target, fs, reads, globbed, debugged, found, failure>>
    /\ UNCHANGED collectVars

\* globby rejects: nothing catches it, findPackageDir rejects.
GlobbyRejects ==
    /\ fpc = "glob"
    /\ fpc' = "rejected"
    /\ failure' = "EACCES"
    /\ UNCHANGED <<target, fs, candidates, index, packageDir, reads, globbed,
                   debugged, found>>
    /\ UNCHANGED collectVars

\* One call of the reducer: once a directory is found it is passed along,
\* otherwise the next candidate is tested.
Reducer ==
    /\ fpc = "reduce"
    /\ index < Len(candidates)
    /\ index' = index + 1
    /\ LET possiblePackageDir == candidates[index + 1]
           isSame == isSamePackage(target, fs[possiblePackageDir])
       IN  IF packageDir # <<>>
           THEN UNCHANGED <<packageDir, reads, debugged, fpc, failure>>
           ELSE /\ reads' = Append(reads, possiblePackageDir)
                /\ debugged' = IF LogsDebug(fs[possiblePackageDir])
                               THEN debugged + 1 ELSE debugged
                /\ IF isSame.status = "rejected"
                   THEN /\ fpc' = "rejected"
                        /\ failure' = isSame.code
                        /\ UNCHANGED packageDir
                   ELSE /\ packageDir' = IF isSame.same THEN possiblePackageDir ELSE <<>>
                        /\ UNCHANGED <<fpc, failure>>
    /\ UNCHANGED <<target, fs, candidates, globbed, found>>
    /\ UNCHANGED collectVars

\* The reduce is over: lookForPackageDir fulfils with the accumulator.
LookForPackageDirFulfils ==
    /\ fpc = "reduce"
    /\ index = Len(candidates)
    /\ fpc' = "resolved"
    /\ UNCHANGED <<target, fs, candidates, index, packageDir, reads, globbed,
                   debugged, found, failure>>
    /\ UNCHANGED collectVars

\* .then((packageDir) => packageDir || dir): findPackageDir fulfils.
FallbackToRoot ==
    /\ fpc = "resolved"
    /\ found' = Fallback(Dir)
    /\ fpc' = "done"
    /\ UNCHANGED <<target, fs, candidates, index, packageDir, reads, globbed,
                   debugged, failure>>
    /\ UNCHANGED collectVars

----------------------------------------------------------------------------
(* Specification                                                           *)

\* No findPackageDir call is under way.
FindIdle ==
    /\ target = Undefined
    /\ fs = EmptyObject
    /\ fpc = "idle"
    /\ candidates = <<>>
    /\ index = 0
    /\ packageDir = <<>>
    /\ reads = <<>>
    /\ globbed = 0
    /\ debugged = 0
    /\ found = <<>>
    /\ failure = Undefined

\* No collect() call is under way.
CollectIdle ==
    /\ data = [maintainers |-> <<>>]
    /\ packageJson = EmptyObject
    /\ downloaded = [downloader |-> "npm", packageJson |-> EmptyObject]
    /\ pc = "idle"
    /\ ownership = "pending"
    /\ lookups = <<>>
    /\ getAsync = EmptyObject
    /\ warned = 0
    /\ invoked = {}
    /\ promises = [c \in Collectors |-> NotCreated]
    /\ collected = EmptyObject
    /\ result = EmptyObject
    /\ rejection = EmptyObject

Init ==
    /\ FindIdle
    /\ data \in {[maintainers |-> m] : m \in MaintainerLists}
    /\ packageJson \in LatestManifests
    /\ downloaded \in {[downloader |-> d, packageJson |-> j] :
                          d \in Downloaders, j \in DownloadedManifests}
    /\ pc = "start"
    /\ ownership = "pending"
    /\ lookups = <<>>
    /\ getAsync = EmptyObject
    /\ warned = 0
    /\ invoked = {}
    /\ promises = [c \in Collectors |-> NotCreated]
    /\ collected = EmptyObject
    /\ result = EmptyObject
    /\ rejection = EmptyObject

Next ==
    \/ CheckRepositoryOwnership
    \/ GetAsyncFulfils
    \/ GetAsyncRejects
    \/ RunCollectors
    \/ \E c \in Collectors : CollectorFulfils(c)
    \/ \E c \in Collectors : CollectorRejects(c)
    \/ PromisePropsSettled
    \/ PickCollected

Spec == Init /\ [][Next]_vars

\* The passes over one package identity, whatever was downloaded for it.
InitFair ==
    /\ Init
    /\ data.maintainers = <<[name |-> "x", email |-> "e"]>>

\* The registry lookup and every collector that was started settle, and the
\* callbacks that wait for them run.
SpecFair == InitFair /\ [][Next]_vars /\ WF_vars(Next)

\* A package that could not be downloaded: the caller only calls empty(name).
NextEmpty == Empty

SpecEmpty == Init /\ [][NextEmpty]_vars

\* One findPackageDir(packageJson, dir) call over some downloaded tree.
InitFind ==
    /\ CollectIdle
    /\ target \in Names
    /\ fs \in [{Dir} \cup {join(Dir, d) : d \in NestedDirs} -> LoadOutcomes]
    /\ fpc = "start"
    /\ candidates = <<>>
    /\ index = 0
    /\ packageDir = <<>>
    /\ reads = <<>>
    /\ globbed = 0
    /\ debugged = 0
    /\ found = <<>>
    /\ failure = Undefined

NextFind ==
    \/ FindPackageDir
    \/ GlobbyFulfils
    \/ GlobbyRejects
    \/ Reducer
    \/ LookForPackageDirFulfils
    \/ FallbackToRoot

SpecFind == InitFind /\ [][NextFind]_vars

----------------------------------------------------------------------------
(* Properties                                                              *)

VerdictKnown == ownership \in {"true", "false"}
Collecting == pc \in {"collecting", "settled", "done"}
Fulfilled(c) == promises[c].status = "fulfilled"
FulfilledTruthy(c) == Fulfilled(c) /\ promises[c].value # Null
Rejected(c) == promises[c].status = "rejected"
DeclaresUrl(json) == "repository" \in DOMAIN json /\ "url" \in DOMAIN json["repository"]
LookupFulfilled == "value" \in DOMAIN getAsync
LookupRejected == "reason" \in DOMAIN getAsync
LookupNotFound == LookupRejected /\ "error" \in DOMAIN getAsync.reason
                     /\ getAsync.reason["error"] = "not_found"

\* C1 (as stated): once collect() has fulfilled, its result holds the key of
\* every collector that fulfilled and of none that rejected.
C1_EveryFulfilledKey ==
    pc = "done" =>
        \A c \in Collectors :
            /\ Fulfilled(c) => c \in DOMAIN result
            /\ Rejected(c) => c \notin DOMAIN result

\* C1 (amended): a pass that reached a verdict never rejects, whatever the
\* collectors do, and the keys of its result are exactly the collectors that
\* fulfilled with a truthy value: rejected ones and ones that fulfilled with
\* a falsy value are absent, and no rejection removes a sibling's key.
C1_TruthyFulfilledKeys ==
    /\ VerdictKnown => pc # "rejected" /\ rejection = EmptyObject
    /\ pc = "done" =>
        \A c \in Collectors :
            /\ c \in DOMAIN result <=> FulfilledTruthy(c)
            /\ c \in DOMAIN result => result[c] = promises[c].value

C1_Witness ==
    /\ pc = "done"
    /\ Rejected("npm")
    /\ DOMAIN result = {"metadata", "source"}
    /\ FulfilledTruthy("metadata") /\ FulfilledTruthy("source")

\* C2: with a false verdict the result never has the github key, and with a
\* false verdict and a downloader other than npm it never has the source key.
C2_NoKeyForInapplicable ==
    (Collecting /\ ownership = "false") =>
        /\ "github" \notin DOMAIN result
        /\ "github" \notin DOMAIN collected
        /\ downloaded.downloader # "npm" =>
              "source" \notin DOMAIN result /\ "source" \notin DOMAIN collected

C2_Witness ==
    /\ pc = "done"
    /\ ownership = "false"
    /\ downloaded.downloader # "npm"
    /\ DOMAIN result = {"metadata", "npm"}

\* C3 (as stated): an empty downloaded manifest always gives a false verdict.
C3_EmptyIsFalse ==
    (VerdictKnown /\ DOMAIN downloaded.packageJson = {}) => ownership = "false"

\* C3 (amended): an empty downloaded manifest gives a false verdict when the
\* latest manifest has a name and declares a repository URL; no lookup is made.
C3_EmptyWithClaimedRepositoryIsFalse ==
    (DOMAIN downloaded.packageJson = {} /\ "name" \in DOMAIN packageJson
        /\ DeclaresUrl(packageJson) /\ pc # "start") =>
            ownership = "false" /\ lookups = <<>>

C3_Witness ==
    /\ pc = "verified"
    /\ DOMAIN downloaded.packageJson = {}
    /\ DeclaresUrl(packageJson)
    /\ ownership = "false"

\* Two maintainers share a name or an email that both of them have.
ShareNameOrEmail(maintainer, downloadedMaintainer) ==
    \E k \in {"name", "email"} :
        /\ k \in DOMAIN maintainer
        /\ k \in DOMAIN downloadedMaintainer
        /\ maintainer[k] = downloadedMaintainer[k]

\* C4: after a successful lookup of the name in the downloaded manifest,
\* which differs from the package's, the verdict is true exactly when some
\* maintainer of the package and some maintainer of the fetched record have
\* the same name or the same email.
C4_VerdictIsMaintainerOverlap ==
    (pc = "verified" /\ LookupFulfilled /\ "name" \in DOMAIN downloaded.packageJson) =>
        (ownership = "true" <=>
            \E i \in DOMAIN data.maintainers :
                \E j \in DOMAIN getAsync.value.maintainers :
                    ShareNameOrEmail(data.maintainers[i], getAsync.value.maintainers[j]))

\* C5: a lookup error other than not_found rejects the verifier and
\* collect() with that error; there is no result and no collector is called.
C5_LookupErrorRejects ==
    (LookupRejected /\ ~LookupNotFound) =>
        /\ ownership = "rejected"
        /\ pc = "rejected"
        /\ rejection = getAsync.reason
        /\ invoked = {}
        /\ \A c \in Collectors : promises[c] = NotCreated
        /\ collected = EmptyObject
        /\ result = EmptyObject

C5_Witness ==
    /\ pc = "rejected"
    /\ LookupRejected
    /\ rejection = [code |-> "ETIMEDOUT"]

\* C6: a not_found lookup resolves the verifier to false, and the pass goes
\* on without calling the github collector.
C6_NotFoundIsFalse ==
    /\ LookupNotFound => ownership = "false" /\ pc = "verified" /\ ENABLED RunCollectors
    /\ (Collecting /\ ownership = "false") =>
          "github" \notin invoked /\ promises["github"] = Skipped

\* A finished pass whose lookup ended in not_found: a lookup was made, the
\* verdict is false and nothing was logged.
C6_Witness ==
    /\ pc = "done"
    /\ lookups # <<>>
    /\ warned = 0
    /\ ownership = "false"
    /\ "github" \notin invoked
    /\ "metadata" \in DOMAIN result

\* C7: equal manifest names give a true verdict, whatever the repository
\* URLs and maintainers are.
C7_SameNameIsOwner ==
    (Get(packageJson, "name") = Get(downloaded.packageJson, "name") /\ pc # "start") =>
        ownership = "true"

C7_Witness ==
    /\ pc = "verified"
    /\ ownership = "true"
    /\ packageJson["name"] = Get(downloaded.packageJson, "name")
    /\ DeclaresUrl(packageJson)
    /\ ~DeclaresUrl(downloaded.packageJson)
    /\ data.maintainers = <<>>

\* C8: when neither manifest declares a repository URL the verdict is true.
C8_NoRepositoryIsOwner ==
    (~DeclaresUrl(packageJson) /\ ~DeclaresUrl(downloaded.packageJson) /\ pc # "start") =>
        ownership = "true"

C8_Witness ==
    /\ pc = "verified"
    /\ ownership = "true"
    /\ ~DeclaresUrl(packageJson)
    /\ ~DeclaresUrl(downloaded.packageJson)
    /\ packageJson["name"] # Get(downloaded.packageJson, "name")

\* C9 (as stated): with the npm downloader and a false verdict the result
\* has the source key whenever the source collector fulfilled, and no github key.
C9_SourceKeyWhenFulfilled ==
    (pc = "done" /\ downloaded.downloader = "npm" /\ ownership = "false") =>
        /\ Fulfilled("source") => "source" \in DOMAIN result
        /\ "github" \notin DOMAIN result

\* C9 (amended): with the npm downloader and a false verdict the source
\* collector is called and the github collector is not; the result has the
\* source key whenever the source collector fulfilled with a truthy value,
\* and no github key.
C9_SourceKeyWhenFulfilledTruthy ==
    (Collecting /\ downloaded.downloader = "npm" /\ ownership = "false") =>
        /\ "source" \in invoked
        /\ "github" \notin invoked
        /\ pc = "done" =>
            /\ FulfilledTruthy("source") => "source" \in DOMAIN result
            /\ "github" \notin DOMAIN result

C9_Witness ==
    /\ pc = "done"
    /\ downloaded.downloader = "npm"
    /\ ownership = "false"
    /\ "source" \in DOMAIN result
    /\ "github" \notin DOMAIN result

\* C10: the collectors called are a function of the verdict and the
\* downloader: none before the verdict or after a rejected verifier, then
\* metadata and npm always, github iff the verdict is true, source iff the
\* downloader is npm or the verdict is true; a skipped one never has a promise.
C10_InvokedIsFunctionOfVerdict ==
    /\ ~Collecting => invoked = {} /\ \A c \in Collectors : promises[c] = NotCreated
    /\ Collecting =>
        /\ VerdictKnown
        /\ {"metadata", "npm"} \subseteq invoked
        /\ "github" \in invoked <=> ownership = "true"
        /\ "source" \in invoked <=> (downloaded.downloader = "npm" \/ ownership = "true")
        /\ \A c \in Collectors : c \notin invoked <=> promises[c] = Skipped

C10_Witness ==
    /\ pc = "collecting"
    /\ ownership = "false"
    /\ downloaded.downloader = "github"
    /\ invoked = {"metadata", "npm"}

\* C15: empty(name) has the single key metadata, holding the metadata
\* collector's placeholder for that name; no collector is called for it.
C15_EmptyHasOnlyMetadata ==
    pc = "empty" =>
        /\ DOMAIN result = {"metadata"}
        /\ result["metadata"] = metadataEmpty(packageJson["name"])
        /\ invoked = {}
        /\ \A c \in Collectors : promises[c] = NotCreated
        /\ lookups = <<>>

C15_Witness ==
    /\ pc = "empty"
    /\ "metadata" \in DOMAIN result
    /\ result["metadata"] = [name |-> PackageName]

\* C16: once the verdict is known, a warning was logged exactly when the
\* verdict is false.
C16_FalseVerdictWarns ==
    VerdictKnown => (ownership = "false" <=> warned > 0)

\* C17: while the verdict is unknown no collector has been called, and a
\* collector's promise exists only in a pass whose verifier, lookup included,
\* has fulfilled with a verdict.
C17_NoSpeculativeCollectors ==
    /\ (ownership = "pending" \/ pc \in {"start", "lookup"}) =>
          /\ invoked = {}
          /\ \A c \in Collectors : promises[c] = NotCreated
    /\ \A c \in Collectors :
          promises[c].status \in {"pending", "fulfilled", "rejected"} =>
              VerdictKnown /\ pc \notin {"start", "lookup", "verified", "rejected"}

C17_Witness ==
    /\ pc = "collecting"
    /\ lookups # <<>>
    /\ ownership = "true"
    /\ promises["github"] = Pending
    /\ promises["source"] = Pending

NoneLeftPending ==
    pc \in {"settled", "done"} =>
        /\ \A c \in invoked : promises[c].status \in {"fulfilled", "rejected"}
        /\ DOMAIN collected = {c \in Collectors : Fulfilled(c)}
        /\ \A c \in DOMAIN collected : collected[c] = promises[c].value

\* C18: collect() settles only once every collector it called has settled,
\* what it gets is fixed by the collectors' outcomes alone, whatever the order
\* they settled in, and under fairness every pass ends fulfilled or rejected.
C18_SettlesAfterAll ==
    []NoneLeftPending /\ <>(pc \in {"done", "rejected"})

C18_Witness ==
    /\ pc = "settled"
    /\ invoked = Collectors
    /\ Rejected("metadata")
    /\ Fulfilled("source")
    /\ DOMAIN collected = {"npm", "github", "source"}

\* C19: the registry is asked at most once, exactly in the calls where the
\* names differ, one of the manifests declares a repository URL and the
\* downloaded manifest is not empty, and for the downloaded manifest's name.
C19_LookupOnlyAfterShortCircuits ==
    /\ Len(lookups) <= 1
    /\ pc = "start" => lookups = <<>>
    /\ pc # "start" =>
          (lookups # <<>> <=>
              /\ Get(packageJson, "name") # Get(downloaded.packageJson, "name")
              /\ DeclaresUrl(packageJson) \/ DeclaresUrl(downloaded.packageJson)
              /\ DOMAIN downloaded.packageJson # {})
    /\ lookups # <<>> =>
          /\ lookups[1] = Get(downloaded.packageJson, "name")
          /\ lookups[1] # packageJson["name"]

C19_Witness ==
    /\ pc = "verified"
    /\ lookups = <<"b">>
    /\ packageJson["name"] = "a"
    /\ ~DeclaresUrl(packageJson)

\* C20: every value of the result of collect() is truthy, and a collector
\* that was skipped or that fulfilled with a falsy value has no key.
C20_ResultValuesTruthy ==
    pc = "done" =>
        /\ \A k \in DOMAIN result : result[k] \notin {Undefined, Null, "", "false"}
        /\ \A c \in Collectors :
              (promises[c] = Skipped \/ (Fulfilled(c) /\ promises[c].value = Null)) =>
                  c \notin DOMAIN result

C20_Witness ==
    /\ pc = "done"
    /\ promises["github"] = Skipped
    /\ Fulfilled("source")
    /\ promises["source"].value = Null
    /\ DOMAIN result = {"metadata", "npm"}

----------------------------------------------------------------------------
(* Properties of findPackageDir                                            *)

\* The manifest of a directory reads as an object named like the target.
Matches(d) == fs[d].status = "fulfilled" /\ fs[d].json = "object" /\ fs[d].name = target
ReadFails(d) == fs[d].status = "rejected"
NestedPaths == DOMAIN fs \ {Dir}
\* Position of the first candidate that matches, 0 if none does.
FirstMatch ==
    IF \E i \in DOMAIN candidates : Matches(candidates[i])
    THEN CHOOSE i \in DOMAIN candidates :
            Matches(candidates[i]) /\ \A j \in 1..(i - 1) : ~Matches(candidates[j])
    ELSE 0

\* C11: findPackageDir never rejects and fulfils with a non-empty path, which
\* is the root directory when no manifest of the tree matches the target.
C11_NeverFails ==
    /\ fpc # "rejected"
    /\ fpc = "done" =>
        /\ found # <<>>
        /\ (\A d \in DOMAIN fs : ~Matches(d)) => found = Dir

C13_FirstMatchWins ==
    (~Matches(Dir) /\ \E d \in NestedPaths : Matches(d)) =>
        /\ fpc # "rejected"
        /\ fpc = "done" =>
            /\ FirstMatch > 0
            /\ found = candidates[FirstMatch]
            /\ reads = <<Dir>> \o SubSeq(candidates, 1, FirstMatch)

\* C14: when the root manifest matches, the call fulfils with the root
\* directory, globby is never called and no nested manifest is read.
C14_RootMatchShortCircuits ==
    Matches(Dir) =>
        /\ fpc \in {"start", "resolved", "done"}
        /\ globbed = 0
        /\ candidates = <<>>
        /\ reads \in {<<>>, <<Dir>>}
        /\ fpc = "done" => found = Dir

C14_Witness ==
    /\ fpc = "done"
    /\ found = Dir
    /\ Matches(Dir)
    /\ \E d \in NestedPaths : Matches(d)

====
